---- MODULE Spec2Model ----
(***************************************************************************)
(* Model of the request-synthesis core of x8 (src/network/request.rs and   *)
(* src/network/utils.rs): RequestDefaults::new with format inference and   *)
(* placement fixup, Request::prepare with the query builder, and the       *)
(* send_by dispatch with its single retry.  SpecNew runs new alone over a  *)
(* wider range of arguments, SpecQuery the query builder on pairs put into *)
(* the pub fields, SpecShared several Requests on one RequestDefaults.     *)
(*                                                                         *)
(* A Rust String is a sequence of one-character strings; the control       *)
(* characters are the elements "NUL" (0x00), "SOH" (0x01), "CR" and "LF",   *)
(* the backtick is "GRAVE".                                                *)
(* A (String, String) pair is a 2-tuple, a Vec a sequence.                 *)
(***************************************************************************)
EXTENDS Integers, Sequences, FiniteSets

VARIABLES
    inputs,     \* the arguments handed to RequestDefaults::new
    defaults,   \* what RequestDefaults::new returned (status + RequestDefaults)
    req,        \* the caller's Request
    pc,         \* where the caller / send_by is
    attempts,   \* the transport attempts of send_by: <<[sent, outcome]>>
    slept,      \* seconds send_by has slept in its cooldown
    result,     \* what the consuming call (send_by / empty_response) returned
    last_query, \* what the caller's last make_query call returned
    requests    \* the Requests that borrow one RequestDefaults together

vars == <<inputs, defaults, req, pc, attempts, slept, result, last_query, requests>>

----------------------------------------------------------------------------
(* str primitives of the Rust standard library, as the code uses them.     *)

\* str::starts_with
StartsWith(s, p) ==
    /\ Len(p) <= Len(s)
    /\ SubSeq(s, 1, Len(p)) = p

\* str::contains (non-empty pattern)
Contains(s, sub) ==
    \E i \in 1..(Len(s) - Len(sub) + 1) : SubSeq(s, i, i + Len(sub) - 1) = sub


\* the start of the first match of sub in s at or after from, 0 when none
FirstMatch(s, sub, from) ==
    LET starts == {i \in from..(Len(s) - Len(sub) + 1) : SubSeq(s, i, i + Len(sub) - 1) = sub}
    IN  IF starts = {} THEN 0 ELSE CHOOSE i \in starts : \A j \in starts : i <= j

\* str::replace: every non-overlapping match, left to right
RECURSIVE ReplaceFrom(_, _, _, _)
ReplaceFrom(s, from, to, start) ==
    LET m == FirstMatch(s, from, start)
    IN  IF m = 0 THEN SubSeq(s, start, Len(s))
        ELSE SubSeq(s, start, m - 1) \o to \o ReplaceFrom(s, from, to, m + Len(from))

Replace(s, from, to) == ReplaceFrom(s, from, to, 1)

\* str::split(pattern): the pieces between the non-overlapping matches, left
\* to right, empty pieces included
RECURSIVE SplitFrom(_, _, _)
SplitFrom(s, sep, start) ==
    LET m == FirstMatch(s, sep, start)
    IN  IF m = 0 THEN <<SubSeq(s, start, Len(s))>>
        ELSE <<SubSeq(s, start, m - 1)>> \o SplitFrom(s, sep, m + Len(sep))

Split(s, sep) == SplitFrom(s, sep, 1)

\* [String]::join
RECURSIVE Join(_, _)
Join(pieces, sep) ==
    IF pieces = <<>> THEN <<>>
    ELSE IF Len(pieces) = 1 THEN pieces[1]
    ELSE pieces[1] \o sep \o Join(Tail(pieces), sep)

\* String::pop: drops the last character, whatever it is
Pop(s) == IF s = <<>> THEN s ELSE SubSeq(s, 1, Len(s) - 1)

\* the number of occurrences of sub in s (non-overlapping, left to right)
Occurrences(s, sub) == Len(Split(s, sub)) - 1

----------------------------------------------------------------------------
(* Literals of the source.                                                 *)

MARKER == <<"%", "s">>
RANDOM_VAR == <<"{", "{", "r", "a", "n", "d", "o", "m", "}", "}">>
KEY_VAR == <<"%", "k">>
VALUE_VAR == <<"%", "v">>

HEADERS_TEMPLATE == <<"%", "k", "NUL", "@", "%", "=", "%", "@", "NUL", "%", "v">>
HEADERS_MIDDLE == <<"NUL", "@", "%", "=", "%", "@", "NUL">>
HEADERS_JOINER == <<"SOH", "@", "%", "&", "%", "@", "SOH">>

JSON_TEMPLATE == <<"\"", "%", "k", "\"", ":", "%", "v">>
URLENCODED_TEMPLATE == <<"%", "k", "=", "%", "v">>

CONTENT_TYPE == <<"C", "o", "n", "t", "e", "n", "t", "-", "T", "y", "p", "e">>
APPLICATION_JSON ==
    <<"a", "p", "p", "l", "i", "c", "a", "t", "i", "o", "n", "/", "j", "s", "o", "n">>
APPLICATION_URLENCODED ==
    <<"a", "p", "p", "l", "i", "c", "a", "t", "i", "o", "n", "/", "x", "-", "w", "w", "w", "-",
      "f", "o", "r", "m", "-", "u", "r", "l", "e", "n", "c", "o", "d", "e", "d">>

\* Option<T>
None == [some |-> FALSE, val |-> <<>>]
Some(v) == [some |-> TRUE, val |-> v]

\* the seconds send_by sleeps before its retry
COOLDOWN_SECS == 10

----------------------------------------------------------------------------
(* RequestDefaults::new, guess_data_format and fix_path_and_body.          *)
(* Option<DataType> is one of the strings below; a function that can hit   *)
(* unreachable!() returns a record whose panic field says so.              *)

NoDataType == "None"
DataTypes == {"Json", "ProbablyJson", "Urlencoded", "Headers"}
InjectionPlaces == {"Path", "Body", "Headers", "HeaderValue"}

\* the Default impl of InjectionPlace
DefaultInjectionPlace == "Path"

BodyMethods == {"POST", "PUT", "PATCH", "DELETE"}

\* custom_headers.iter().any(|x| x.1.contains("%s"))
AnyValueHasMarker(custom_headers) ==
    \E i \in 1..Len(custom_headers) : Contains(custom_headers[i][2], MARKER)

\* injection_place_of with the invert flag honoured for the body verbs only
injection_place_invert_half(method, invert, headers_discovery, custom_headers) ==
    IF headers_discovery
    THEN IF AnyValueHasMarker(custom_headers) THEN "HeaderValue" ELSE "Headers"
    ELSE IF method \in BodyMethods /\ ~invert THEN "Body" ELSE "Path"

\* the injection place new settles on
injection_place_of(method, invert, headers_discovery, custom_headers) ==
    IF headers_discovery
    THEN IF AnyValueHasMarker(custom_headers) THEN "HeaderValue" ELSE "Headers"
    ELSE IF \/ (method \in BodyMethods /\ ~invert)
            \/ (method \notin BodyMethods /\ invert)
         THEN "Body"
         ELSE "Path"

\* the resolution without the headers_discovery overwrite before it
resolve_data_type_declared(data_type, headers_discovery, injection_place) ==
    IF data_type # "ProbablyJson"
    THEN [panic |-> FALSE, data_type |-> IF headers_discovery THEN "Headers" ELSE data_type]
    ELSE IF injection_place = "Body"
         THEN [panic |-> FALSE, data_type |-> "Json"]
         ELSE IF injection_place = "Path"
              THEN [panic |-> FALSE, data_type |-> "Urlencoded"]
              ELSE [panic |-> TRUE, data_type |-> data_type]

\* the data type new hands to guess_data_format
resolve_data_type(data_type, headers_discovery, injection_place) ==
    LET declared == IF headers_discovery THEN "Headers" ELSE data_type
    IN  IF declared # "ProbablyJson"
        THEN [panic |-> FALSE, data_type |-> declared]
        ELSE IF injection_place = "Body"
             THEN [panic |-> FALSE, data_type |-> "Json"]
             ELSE IF injection_place = "Path"
                  THEN [panic |-> FALSE, data_type |-> "Urlencoded"]
                  ELSE [panic |-> TRUE, data_type |-> declared]

JsonFormat ==
    [panic |-> FALSE, template |-> JSON_TEMPLATE, joiner |-> <<",">>,
     is_json |-> TRUE, data_type |-> "Json"]

UrlencodedFormat ==
    [panic |-> FALSE, template |-> URLENCODED_TEMPLATE, joiner |-> <<"&">>,
     is_json |-> FALSE, data_type |-> "Urlencoded"]

guess_data_format(body, injection_place, data_type) ==
    IF data_type # NoDataType /\ data_type # "Headers"
    THEN CASE data_type = "Json" -> JsonFormat
           [] data_type = "Urlencoded" -> UrlencodedFormat
           [] OTHER -> [UrlencodedFormat EXCEPT !.panic = TRUE]
    ELSE CASE injection_place = "Body" ->
                IF StartsWith(body, <<"{">>) THEN JsonFormat ELSE UrlencodedFormat
           [] injection_place = "HeaderValue" ->
                [panic |-> FALSE, template |-> URLENCODED_TEMPLATE, joiner |-> <<";">>,
                 is_json |-> FALSE, data_type |-> NoDataType]
           [] injection_place = "Path" -> UrlencodedFormat
           [] injection_place = "Headers" ->
                [panic |-> FALSE, template |-> HEADERS_TEMPLATE,
                 joiner |-> HEADERS_JOINER, is_json |-> FALSE, data_type |-> NoDataType]

\* the Urlencoded arms of the Body branch, for a body without the marker
fix_body_urlencoded(body, joiner) ==
    IF body = <<>> THEN MARKER ELSE body \o joiner \o MARKER

\* the Path branch
fix_path_always_question(path, joiner) ==
    IF Contains(path, MARKER) THEN path ELSE path \o <<"?">> \o MARKER

fix_path(path, joiner) ==
    IF Contains(path, MARKER) THEN path
    ELSE IF Contains(path, <<"?">>) THEN path \o joiner \o MARKER
    ELSE IF joiner = <<"&">> THEN path \o <<"?">> \o MARKER
    ELSE path \o MARKER

fix_path_and_body(path, body, joiner, injection_place, data_type) ==
    LET same == [panic |-> FALSE, path |-> path, body |-> body]
    IN  CASE injection_place = "Body" ->
               IF Contains(body, MARKER) THEN same
               ELSE IF body = <<>>
               THEN CASE data_type = "Urlencoded" ->
                           [same EXCEPT !.body = fix_body_urlencoded(body, joiner)]
                      [] data_type = "Json" -> [same EXCEPT !.body = <<"{">> \o MARKER \o <<"}">>]
                      [] OTHER -> [same EXCEPT !.panic = TRUE]
               ELSE CASE data_type = "Urlencoded" ->
                           [same EXCEPT !.body = fix_body_urlencoded(body, joiner)]
                      [] data_type = "Json" ->
                           LET popped == Pop(body)
                           IN  IF popped # <<"{">>
                               THEN [same EXCEPT !.body = popped \o <<",">> \o MARKER \o <<"}">>]
                               ELSE [same EXCEPT !.body = popped \o MARKER \o <<"}">>]
                      [] OTHER -> [same EXCEPT !.panic = TRUE]
          [] injection_place = "Path" -> [same EXCEPT !.path = fix_path(path, joiner)]
          [] OTHER -> same

\* .replace("\\r", "\r").replace("\\n", "\n") on the joiner
unescape_joiner(joiner) ==
    Replace(Replace(joiner, <<"\\", "r">>, <<"CR">>), <<"\\", "n">>, <<"LF">>)

\* the RequestDefaults of a call that did not get to build one
NoDefaults ==
    [method |-> "", scheme |-> "", path |-> <<>>, host |-> "", port |-> 0,
     custom_headers |-> <<>>, delay |-> 0, template |-> <<>>, joiner |-> <<>>,
     encode |-> FALSE, is_json |-> FALSE, body |-> <<>>,
     disable_custom_parameters |-> FALSE, parameters |-> <<>>,
     injection_place |-> DefaultInjectionPlace, amount_of_reflections |-> 0,
     check_binary |-> FALSE]

\* RequestDefaults::new. in.url is what Url::parse makes of the url argument:
\* parsed (or not), with a host and a known port (or not), and the text from
\* the path on. status is "Ok", "Err" (the Result's Err) or "Panic".
RequestDefaultsNew(in) ==
    LET injection_place ==
            injection_place_of(in.method, in.invert, in.headers_discovery,
                               in.custom_headers)
        resolved == resolve_data_type(in.data_type, in.headers_discovery, injection_place)
        guessed == guess_data_format(in.body, injection_place, resolved.data_type)
        template == IF in.template.some THEN in.template.val ELSE guessed.template
        joiner == unescape_joiner(IF in.joiner.some THEN in.joiner.val ELSE guessed.joiner)
        fixed == IF guessed.data_type # NoDataType
                 THEN fix_path_and_body(in.url.before_path, in.body, joiner,
                                        injection_place, guessed.data_type)
                 ELSE [panic |-> FALSE, path |-> in.url.before_path, body |-> in.body]
    IN  IF resolved.panic THEN [status |-> "Panic", rd |-> NoDefaults]
        ELSE IF guessed.panic THEN [status |-> "Panic", rd |-> NoDefaults]
        ELSE IF ~in.url.parsed THEN [status |-> "Err", rd |-> NoDefaults]
        ELSE IF fixed.panic THEN [status |-> "Panic", rd |-> NoDefaults]
        ELSE IF ~in.url.has_host \/ ~in.url.known_port
             THEN [status |-> "Err", rd |-> NoDefaults]
        ELSE [status |-> "Ok",
              rd |-> [method |-> in.method, scheme |-> in.url.scheme, path |-> fixed.path,
                      host |-> in.url.host, port |-> in.url.port,
                      custom_headers |-> in.custom_headers, delay |-> in.delay,
                      template |-> template, joiner |-> joiner, encode |-> in.encode,
                      is_json |-> guessed.is_json, body |-> fixed.body,
                      disable_custom_parameters |-> in.disable_custom_parameters,
                      parameters |-> <<>>, injection_place |-> injection_place,
                      amount_of_reflections |-> 0, check_binary |-> in.check_binary]]

----------------------------------------------------------------------------
(* Headers (utils.rs) and the percent-encoding of the FRAGMENT set.        *)

\* Headers::contains_key: an exact, case-sensitive comparison of the names
contains_key(headers, key) ==
    \E i \in 1..Len(headers) : headers[i][1] = key

\* char::to_lowercase, on the letters the header names of the model use
LowerChar(c) ==
    CASE c = "C" -> "c"
      [] c = "T" -> "t"
      [] c = "H" -> "h"
      [] c = "X" -> "x"
      [] OTHER -> c

\* str::to_lowercase
to_lowercase(s) == [i \in 1..Len(s) |-> LowerChar(s[i])]

\* Headers::get_index_case_insensitive, 0 for None
get_index_case_insensitive(headers, key) ==
    IF \E i \in 1..Len(headers) : to_lowercase(headers[i][1]) = to_lowercase(key)
    THEN CHOOSE i \in 1..Len(headers) :
            /\ to_lowercase(headers[i][1]) = to_lowercase(key)
            /\ \A j \in 1..(i - 1) : to_lowercase(headers[j][1]) # to_lowercase(key)
    ELSE 0

\* utf8_percent_encode(c, &FRAGMENT): the CONTROLS set plus the characters
\* FRAGMENT adds are written %XX, as is every byte of a non-ASCII character;
\* every other ASCII character is kept
EncodeChar(c) ==
    CASE c = "NUL" -> <<"%", "0", "0">>
      [] c = "SOH" -> <<"%", "0", "1">>
      [] c = "LF" -> <<"%", "0", "A">>
      [] c = "CR" -> <<"%", "0", "D">>
      [] c = " " -> <<"%", "2", "0">>
      [] c = "\"" -> <<"%", "2", "2">>
      [] c = "#" -> <<"%", "2", "3">>
      [] c = "%" -> <<"%", "2", "5">>
      [] c = "&" -> <<"%", "2", "6">>
      [] c = "/" -> <<"%", "2", "F">>
      [] c = ";" -> <<"%", "3", "B">>
      [] c = "<" -> <<"%", "3", "C">>
      [] c = "=" -> <<"%", "3", "D">>
      [] c = ">" -> <<"%", "3", "E">>
      [] c = "GRAVE" -> <<"%", "6", "0">>
      [] c = "U+0663" -> <<"%", "D", "9", "%", "A", "3">>
      [] OTHER -> <<c>>

RECURSIVE utf8_percent_encode(_)
utf8_percent_encode(s) ==
    IF s = <<>> THEN <<>>
    ELSE IF Len(s) = 1 THEN EncodeChar(s[1])
    ELSE LET half == Len(s) \div 2
         IN  utf8_percent_encode(SubSeq(s, 1, half))
                \o utf8_percent_encode(SubSeq(s, half + 1, Len(s)))

----------------------------------------------------------------------------
(* Request: new, set_header, make_query, prepare.                          *)

\* what random_line can return: alphanumeric strings of one length
RandomLines == {<<"p">>, <<"q">>}

\* the Request of a state in which none exists
NoRequest ==
    [parameters |-> <<>>, prepared_parameters |-> <<>>, non_random_parameters |-> <<>>,
     headers |-> <<>>, body |-> <<>>, path |-> <<>>, prepared |-> FALSE]

\* Request::new
RequestNew(l, parameters) ==
    [path |-> l.path, headers |-> <<>>, body |-> l.body, parameters |-> parameters,
     prepared_parameters |-> <<>>, non_random_parameters |-> <<>>, prepared |-> FALSE]

\* Request::set_header
set_header(r, key, value) == [r EXCEPT !.headers = Append(@, <<key, value>>)]

\* Request::set_headers
set_headers(r, headers) == [r EXCEPT !.headers = @ \o headers]

\* RE_JSON_WORDS_WITHOUT_QUOTES: ^([1-9]\d*|null|false|true)$
NonZeroDigits == {"1", "2", "3", "4", "5", "6", "7", "8", "9"}
\* \d is Unicode-aware in the regex crate: any decimal digit (Nd), of which
\* "U+0663" (ARABIC-INDIC DIGIT THREE) is the non-ASCII one of the model
DecimalDigits == NonZeroDigits \cup {"0", "U+0663"}

IsJsonWordWithoutQuotes(v) ==
    \/ v = <<"n", "u", "l", "l">>
    \/ v = <<"f", "a", "l", "s", "e">>
    \/ v = <<"t", "r", "u", "e">>
    \/ /\ v # <<>>
       /\ v[1] \in NonZeroDigits
       /\ \A i \in 2..Len(v) : v[i] \in DecimalDigits

\* one entry of the query: the template with %k and then %v replaced
render_parameter(d, kv) ==
    LET value == IF d.is_json /\ ~IsJsonWordWithoutQuotes(kv[2])
                 THEN <<"\"">> \o kv[2] \o <<"\"">>
                 ELSE kv[2]
    IN  Replace(Replace(d.template, KEY_VAR, kv[1]), VALUE_VAR, value)

\* Request::make_query
make_query(r, d) ==
    LET chained == r.prepared_parameters \o d.parameters
        query == Join([i \in 1..Len(chained) |-> render_parameter(d, chained[i])],
                      d.joiner)
    IN  IF d.encode THEN utf8_percent_encode(query) ELSE query

\* the tokens of parameters that contain '='
explicit_tokens(parameters) ==
    LET HasEq(x) == Contains(x, <<"=">>) IN SelectSeq(parameters, HasEq)

\* the non-empty tokens of parameters that contain no '='
bare_tokens(parameters) ==
    LET Bare(x) == x # <<>> /\ ~Contains(x, <<"=">>) IN SelectSeq(parameters, Bare)

\* x.split('=') and the first two items of it: (next().unwrap(),
\* next().unwrap_or(""))
split_token(x) ==
    LET pieces == Split(x, <<"=">>)
    IN  <<pieces[1], IF Len(pieces) >= 2 THEN pieces[2] ELSE <<>>>>

non_random_parameters_of(parameters) ==
    LET tokens == explicit_tokens(parameters)
    IN  [i \in 1..Len(tokens) |-> split_token(tokens[i])]

\* the random_line draws one run of prepare can make: one per bare token, one
\* per custom header copied, one for the path, one for the body, and one per
\* custom header rewritten under HeaderValue
draws_needed(r, d) ==
    Len(bare_tokens(r.parameters)) + 2 * Len(d.custom_headers) + 2

Draws(r, d) == [1..draws_needed(r, d) -> RandomLines]

\* prepared_parameters_of with the random pairs chained before the explicit ones
prepared_parameters_random_first(r, draws) ==
    LET bare == bare_tokens(r.parameters)
    IN  r.prepared_parameters
            \o [i \in 1..Len(bare) |-> <<bare[i], draws[i]>>]
            \o non_random_parameters_of(r.parameters)

\* prepared_parameters as prepare builds it; draws[i] is the i-th random_line
prepared_parameters_of(r, draws) ==
    LET bare == bare_tokens(r.parameters)
    IN  r.prepared_parameters
            \o non_random_parameters_of(r.parameters)
            \o [i \in 1..Len(bare) |-> <<bare[i], draws[i]>>]

\* whether prepare adds its own Content-Type header under Body
body_adds_content_type(r, d) == ~contains_key(d.custom_headers, CONTENT_TYPE)

\* whether prepare adds its own Content-Type header under Headers/HeaderValue
headers_add_content_type(r, d) ==
    /\ ~contains_key(d.custom_headers, CONTENT_TYPE)
    /\ d.method # "GET"
    /\ d.method # "HEAD"
    /\ r.body # <<>>

\* the query split into headers, as the Headers branch of prepare does it;
\* panic when an entry has no HEADERS_MIDDLE in it (the second unwrap)
split_headers(query, joiner) ==
    LET NonEmpty(x) == x # <<>>
        entries == SelectSeq(Split(query, joiner), NonEmpty)
        parts == [i \in 1..Len(entries) |-> Split(entries[i], HEADERS_MIDDLE)]
    IN  IF \E i \in 1..Len(parts) : Len(parts[i]) < 2
        THEN [panic |-> TRUE, headers |-> <<>>]
        ELSE [panic |-> FALSE,
              headers |-> [i \in 1..Len(parts) |-> <<parts[i][1], parts[i][2]>>]]

\* prepare past its `if self.prepared { return; }`, with the random_line
\* draws it makes; panic when an unwrap of the Headers branch fails
prepare_unprepared(r, d, draws) ==
    LET nbare == Len(bare_tokens(r.parameters))
        nheaders == Len(d.custom_headers)
        expanded == [i \in 1..nheaders |->
                        <<d.custom_headers[i][1],
                          Replace(d.custom_headers[i][2], RANDOM_VAR, draws[nbare + i])>>]
        r1 == [r EXCEPT !.prepared = TRUE,
                        !.non_random_parameters = non_random_parameters_of(r.parameters),
                        !.prepared_parameters = prepared_parameters_of(r, draws)]
        r2 == IF d.injection_place # "HeaderValue" THEN set_headers(r1, expanded) ELSE r1
        ndone == nbare + nheaders
        r3 == [r2 EXCEPT !.path = Replace(@, RANDOM_VAR, draws[ndone + 1]),
                         !.body = Replace(@, RANDOM_VAR, draws[ndone + 2])]
        query == make_query(r3, d)
        guessed_type == IF StartsWith(r3.body, <<"{">>)
                        THEN APPLICATION_JSON ELSE APPLICATION_URLENCODED
        r4 == IF headers_add_content_type(r3, d)
              THEN set_header(r3, CONTENT_TYPE, guessed_type) ELSE r3
    IN  CASE d.injection_place = "Path" ->
               [panic |-> FALSE, req |-> [r3 EXCEPT !.path = Replace(@, MARKER, query)]]
          [] d.injection_place = "Body" ->
               LET r5 == [r3 EXCEPT !.body = Replace(@, MARKER, query)]
               IN  [panic |-> FALSE,
                    req |-> IF body_adds_content_type(r5, d)
                            THEN set_header(r5, CONTENT_TYPE,
                                            IF d.is_json THEN APPLICATION_JSON
                                            ELSE APPLICATION_URLENCODED)
                            ELSE r5]
          [] d.injection_place = "HeaderValue" ->
               [panic |-> FALSE,
                req |-> set_headers(r4,
                    [i \in 1..nheaders |->
                        <<d.custom_headers[i][1],
                          Replace(Replace(d.custom_headers[i][2], RANDOM_VAR,
                                          draws[ndone + 2 + i]),
                                  MARKER, query)>>])]
          [] d.injection_place = "Headers" ->
               LET split == split_headers(query, d.joiner)
               IN  [panic |-> split.panic, req |-> set_headers(r4, split.headers)]

\* prepare without the check of the prepared flag
prepare_unguarded(r, d, draws) == prepare_unprepared(r, d, draws)

\* Request::prepare
prepare(r, d, draws) ==
    IF r.prepared THEN [panic |-> FALSE, req |-> r] ELSE prepare_unprepared(r, d, draws)

----------------------------------------------------------------------------
(* Request::request up to the transport, and the outcomes of the transport.*)

ControlChars == {"NUL", "SOH", "CR", "LF"}

\* characters of the model that no HTTP header name may hold
NotTokenChars ==
    ControlChars \cup {" ", "\"", "{", "}", "=", "/", "?", ",", ";", ":", "@", "<", ">",
                       "U+0663"}

\* http::Request::builder() ... .body(..).unwrap() and
\* reqwest::Request::try_from(..).unwrap(): a header name that is empty or no
\* token, a header value or a uri with a control character in it, panics
build_panics(r) ==
    \/ \E i \in 1..Len(r.headers) :
          \/ r.headers[i][1] = <<>>
          \/ \E j \in 1..Len(r.headers[i][1]) : r.headers[i][1][j] \in NotTokenChars
          \/ \E j \in 1..Len(r.headers[i][2]) : r.headers[i][2][j] \in ControlChars
    \/ \E j \in 1..Len(r.path) : r.path[j] \in ControlChars \cup {" "}

\* what client.execute and res.bytes can end in: a response with a status
\* code, or a reqwest::Error from either
StatusCodes == {200, 404}
TransportErrors == {"reqwest::Error"}

Outcomes ==
    [ok : {TRUE}, code : StatusCodes, error : {""}]
        \cup [ok : {FALSE}, code : {0}, error : TransportErrors]

NoResult == [kind |-> "None", code |-> 0, request |-> NoRequest]

\* the Response that request() and empty_response() build
Response(code, r) == [kind |-> "Response", code |-> code, request |-> r]

\* retries, with a response that is no 200 taken for a failure too
retries_on_status(outcome) == ~outcome.ok \/ outcome.code # 200

\* whether send_by goes on to its cooldown and second attempt
retries(outcome) == ~outcome.ok

\* the Request that one attempt of send_by hands to request(): a clone of
\* the Request send_by owns, which request() then prepares
attempt_request(r, d, draws) == prepare(r, d, draws)

----------------------------------------------------------------------------
(* Inputs.                                                                 *)

\* how many headers the caller sets with set_header
MaxSetHeaders == 1

Url(path) ==
    [parsed |-> TRUE, has_host |-> TRUE, known_port |-> TRUE, scheme |-> "http",
     host |-> "x.com", port |-> 80, before_path |-> path]

BadUrls ==
    { [Url(<<"/">>) EXCEPT !.parsed = FALSE],
      [Url(<<"/">>) EXCEPT !.has_host = FALSE] }

LOWER_CONTENT_TYPE == <<"c", "o", "n", "t", "e", "n", "t", "-", "t", "y", "p", "e">>

NewInputs ==
    [method : {"GET", "HEAD", "POST", "PUT", "PATCH", "DELETE"},
     url : {Url(<<"/">>), Url(<<"/", "a", "?", "b", "=", "1">>),
            Url(<<"/", "a", "?", "%", "s">>)} \cup BadUrls,
     custom_headers : {<<>>, << <<<<"H">>, <<"a", "%", "s">>>> >>,
                       << <<<<"H">>, <<"v">>>> >>},
     delay : {0},
     template : {None},
     joiner : {None, Some(<<";">>), Some(<<"\\", "n">>), Some(<<"%", "s">>),
               Some(<<"s">>)},
     encode : {FALSE},
     data_type : {NoDataType} \cup DataTypes,
     invert : BOOLEAN,
     headers_discovery : BOOLEAN,
     body : {<<>>, <<"{", "}">>, <<"{", "\"", "a", "\"", ":", "1", "}">>,
             <<"{", "\"", "a", "\"", ":", "1", "}", "LF">>,
             <<"a", "=", "1">>, <<"a", "=", "%", "s">>, <<"a", "%">>},
     disable_custom_parameters : {FALSE},
     check_binary : {FALSE}]

RequestInputs ==
    [method : {"GET", "POST"},
     url : {Url(<<"/">>)},
     custom_headers : {<<>>,
                       << <<LOWER_CONTENT_TYPE, <<"t">>>> >>,
                       << <<CONTENT_TYPE, <<"t">>>> >>,
                       << <<<<"H">>, RANDOM_VAR>> >>,
                       << <<<<"H">>, <<"a", "%", "s">>>> >>},
     delay : {0},
     template : {None},
     joiner : {None},
     encode : BOOLEAN,
     data_type : {NoDataType},
     invert : {FALSE},
     headers_discovery : BOOLEAN,
     body : {<<>>, <<"{", "}">>},
     disable_custom_parameters : {FALSE},
     check_binary : {FALSE}]

\* the parameter lists handed to Request::new
ParameterLists ==
    { <<>>,
      << <<"a", "=", "b", "=", "c">>, <<"x">> >>,
      << <<"x">>, <<>>, <<"a", "=">> >> }

\* pairs a recursive search puts into prepared_parameters before prepare
PreSeeds == { << <<<<"s">>, <<"1">>>> >> }

\* the headers a caller sets with set_header
SetHeaderPairs == { <<CONTENT_TYPE, <<"t">>>> }

----------------------------------------------------------------------------
(* The state machine.                                                      *)

InitWith(in) ==
    /\ inputs \in in
    /\ defaults = [status |-> "None", rd |-> NoDefaults]
    /\ req = NoRequest
    /\ pc = "start"
    /\ attempts = <<>>
    /\ slept = 0
    /\ result = NoResult
    /\ last_query = <<>>
    /\ requests = <<>>

Init == InitWith(RequestInputs)

InitNew == InitWith(NewInputs)

\* RequestDefaults::new
New ==
    /\ pc = "start"
    /\ defaults' = RequestDefaultsNew(inputs)
    /\ pc' = IF defaults'.status = "Ok" THEN "built" ELSE "failed"
    /\ UNCHANGED <<inputs, req, attempts, slept, result, last_query, requests>>

\* Request::new
NewRequest ==
    /\ pc = "built"
    /\ \E parameters \in ParameterLists : req' = RequestNew(defaults.rd, parameters)
    /\ pc' = "live"
    /\ UNCHANGED <<inputs, defaults, attempts, slept, result, last_query, requests>>

\* a caller (the recursive search) seeding the pub field prepared_parameters
PreSeed ==
    /\ pc = "live"
    /\ ~req.prepared
    /\ req.prepared_parameters = <<>>
    /\ \E seed \in PreSeeds : req' = [req EXCEPT !.prepared_parameters = seed]
    /\ UNCHANGED <<inputs, defaults, pc, attempts, slept, result, last_query, requests>>

\* Request::set_header
SetHeader ==
    /\ pc = "live"
    /\ Len(req.headers) < MaxSetHeaders
    /\ \E kv \in SetHeaderPairs : req' = set_header(req, kv[1], kv[2])
    /\ UNCHANGED <<inputs, defaults, pc, attempts, slept, result, last_query, requests>>

\* a call that ran prepare on the caller's Request and returned or panicked
Prepared(p) ==
    /\ req' = p.req
    /\ pc' = IF p.panic THEN "done" ELSE "live"
    /\ result' = IF p.panic THEN [NoResult EXCEPT !.kind = "Panic"] ELSE result
    /\ UNCHANGED <<inputs, defaults, attempts, slept, last_query, requests>>

\* Request::prepare
Prepare ==
    /\ pc = "live"
    /\ \E draws \in Draws(req, defaults.rd) :
          Prepared(prepare(req, defaults.rd, draws))

\* Request::print (print_sent only reads the Request)
PrintRequest ==
    /\ pc = "live"
    /\ \E draws \in Draws(req, defaults.rd) :
          Prepared(prepare(req, defaults.rd, draws))

\* Request::empty_response, which consumes the Request
EmptyResponse ==
    /\ pc = "live"
    /\ \E draws \in Draws(req, defaults.rd) :
          LET p == prepare(req, defaults.rd, draws)
          IN  /\ req' = p.req
              /\ result' = IF p.panic THEN [NoResult EXCEPT !.kind = "Panic"]
                           ELSE Response(0, p.req)
    /\ pc' = "done"
    /\ UNCHANGED <<inputs, defaults, attempts, slept, last_query, requests>>

\* one self.clone().request(clients).await of send_by: the clone is prepared,
\* built and handed to the transport; next is where send_by goes when the
\* transport failed
Attempt(next) ==
    \E draws \in Draws(req, defaults.rd), outcome \in Outcomes :
        \E p \in {attempt_request(req, defaults.rd, draws)} :
            IF p.panic \/ build_panics(p.req)
            THEN /\ result' = [NoResult EXCEPT !.kind = "Panic"]
                 /\ pc' = "done"
                 /\ UNCHANGED attempts
            ELSE /\ attempts' = Append(attempts, [sent |-> p.req, outcome |-> outcome])
                 /\ IF retries(outcome)
                    THEN /\ pc' = next
                         /\ result' = IF next = "done"
                                      THEN [NoResult EXCEPT !.kind = "Error"]
                                      ELSE result
                    ELSE /\ pc' = "done"
                         /\ result' = Response(outcome.code, p.req)

\* Request::send / send_by, up to the end of its first attempt
SendBy ==
    /\ pc = "live"
    /\ Attempt("cooldown")
    /\ UNCHANGED <<inputs, defaults, req, slept, last_query, requests>>

\* tokio::time::sleep(Duration::from_secs(10)) of send_by
Cooldown ==
    /\ pc = "cooldown"
    /\ slept' = slept + COOLDOWN_SECS
    /\ pc' = "retry"
    /\ UNCHANGED <<inputs, defaults, req, attempts, result, last_query, requests>>

\* the second self.clone().request(clients).await? of send_by
Retry ==
    /\ pc = "retry"
    /\ Attempt("done")
    /\ UNCHANGED <<inputs, defaults, req, slept, last_query, requests>>

Next ==
    \/ New
    \/ NewRequest
    \/ PreSeed
    \/ SetHeader
    \/ Prepare
    \/ PrintRequest
    \/ EmptyResponse
    \/ SendBy
    \/ Cooldown
    \/ Retry

Spec == Init /\ [][Next]_vars

\* RequestDefaults::new alone, over a wider range of arguments
NextNew == New

SpecNew == InitNew /\ [][NextNew]_vars

----------------------------------------------------------------------------
(* The query builder alone: make_query on the pairs a caller has put into  *)
(* the pub fields prepared_parameters and RequestDefaults::parameters.     *)

QueryInputs ==
    [method : {"POST"},
     url : {Url(<<"/">>)},
     custom_headers : {<<>>},
     delay : {0},
     template : {None},
     joiner : {None},
     encode : BOOLEAN,
     data_type : {NoDataType},
     invert : {FALSE},
     headers_discovery : {FALSE},
     body : {<<>>, <<"{", "}">>},
     disable_custom_parameters : {FALSE},
     check_binary : {FALSE}]

\* the values of the pairs
QueryValues ==
    { <<"t", "r", "u", "e">>, <<"f", "a", "l", "s", "e">>, <<"n", "u", "l", "l">>,
      <<"1">>, <<"1", "0">>, <<"0">>, <<"0", "1">>, <<"-", "1">>,
      <<"T", "r", "u", "e">>, <<>>, <<"x">>, <<"1", "U+0663">> }

QuerySeeds ==
    {<<>>} \cup { << <<<<"a">>, v>> >> : v \in QueryValues }
           \cup { << <<<<"a">>, <<"1", "0">>>>, <<<<"b">>, <<"x">>>> >> }

DefaultParameters ==
    { << <<<<"d">>, <<"7">>>> >>, << <<<<"d">>, <<"z">>>> >> }

InitQuery == InitWith(QueryInputs)

\* a caller (the recursive search) filling the pub field parameters of the
\* RequestDefaults before any Request borrows it
SeedDefaults ==
    /\ pc = "built"
    /\ defaults.rd.parameters = <<>>
    /\ \E seed \in DefaultParameters :
          defaults' = [defaults EXCEPT !.rd.parameters = seed]
    /\ UNCHANGED <<inputs, req, pc, attempts, slept, result, last_query, requests>>

\* a caller filling the pub field prepared_parameters of its Request
SeedPrepared ==
    /\ pc = "live"
    /\ req.prepared_parameters = <<>>
    /\ \E seed \in QuerySeeds : req' = [req EXCEPT !.prepared_parameters = seed]
    /\ UNCHANGED <<inputs, defaults, pc, attempts, slept, result, last_query, requests>>

\* Request::make_query
MakeQuery ==
    /\ pc = "live"
    /\ last_query' = make_query(req, defaults.rd)
    /\ pc' = "queried"
    /\ UNCHANGED <<inputs, defaults, req, attempts, slept, result, requests>>

NextQuery ==
    \/ New
    \/ SeedDefaults
    \/ NewRequest
    \/ SeedPrepared
    \/ MakeQuery

SpecQuery == InitQuery /\ [][NextQuery]_vars

----------------------------------------------------------------------------
(* Several Requests that borrow one RequestDefaults (&'a RequestDefaults), *)
(* each owned by its own task; their operations interleave.                *)

\* how many Requests borrow the RequestDefaults
NumRequests == 2

SharedInputs ==
    { in \in RequestInputs :
         /\ in.method = "POST"
         /\ ~in.encode
         /\ ~in.headers_discovery
         /\ in.body = <<>>
         /\ in.custom_headers = <<>> }

SharedParameterLists == { <<>>, << <<"a", "=", "1">> >> }

\* where a Request is: owned by its caller ("live"), moved into send_by
\* ("cooldown", "retry"), or consumed ("moved", "panicked")
Owned(state, r) == [state |-> state, r |-> r]

\* a method writes through its own self only: Request i becomes r
store_shared_headers(rs, i, state, r) ==
    [j \in DOMAIN rs |->
        IF j = i THEN Owned(state, r) ELSE [rs[j] EXCEPT !.r.headers = r.headers]]

store(rs, i, state, r) == [rs EXCEPT ![i] = Owned(state, r)]

InitShared == InitWith(SharedInputs)

\* Request::new on the shared RequestDefaults
BorrowRequest ==
    /\ pc = "built"
    /\ Len(requests) < NumRequests
    /\ \E parameters \in SharedParameterLists :
          requests' = Append(requests, Owned("live", RequestNew(defaults.rd, parameters)))
    /\ UNCHANGED <<inputs, defaults, req, pc, attempts, slept, result, last_query>>

\* Request::set_header on Request i, by a caller that sets its one header
\* before anything else adds one
SharedSetHeaderAt(i) ==
    /\ requests[i].state = "live"
    /\ requests[i].r.headers = <<>>
    /\ \E kv \in SetHeaderPairs :
          requests' = store(requests, i, "live", set_header(requests[i].r, kv[1], kv[2]))
    /\ UNCHANGED <<inputs, defaults, req, pc, attempts, slept, result, last_query>>

SharedSetHeader == \E i \in DOMAIN requests : SharedSetHeaderAt(i)

\* Request::prepare and Request::print on Request i
SharedPrepareAt(i) ==
    /\ requests[i].state = "live"
    /\ \E draws \in Draws(requests[i].r, defaults.rd) :
          \E p \in {prepare(requests[i].r, defaults.rd, draws)} :
             requests' = store(requests, i, IF p.panic THEN "panicked" ELSE "live", p.req)
    /\ UNCHANGED <<inputs, defaults, req, pc, attempts, slept, result, last_query>>

SharedPrepare == \E i \in DOMAIN requests : SharedPrepareAt(i)

\* Request::make_query on Request i
SharedMakeQueryAt(i) ==
    /\ requests[i].state = "live"
    /\ last_query' = make_query(requests[i].r, defaults.rd)
    /\ UNCHANGED <<inputs, defaults, req, pc, attempts, slept, result, requests>>

SharedMakeQuery == \E i \in DOMAIN requests : SharedMakeQueryAt(i)

\* Request::empty_response on Request i
SharedEmptyResponseAt(i) ==
    /\ requests[i].state = "live"
    /\ \E draws \in Draws(requests[i].r, defaults.rd) :
          \E p \in {prepare(requests[i].r, defaults.rd, draws)} :
             requests' = store(requests, i, IF p.panic THEN "panicked" ELSE "moved", p.req)
    /\ UNCHANGED <<inputs, defaults, req, pc, attempts, slept, result, last_query>>

SharedEmptyResponse == \E i \in DOMAIN requests : SharedEmptyResponseAt(i)

\* one self.clone().request(clients).await of send_by on Request i: the
\* clone is prepared and sent, the Request send_by owns is not touched
SharedAttempt(i, from, next) ==
    /\ requests[i].state = from
    /\ \E draws \in Draws(requests[i].r, defaults.rd), outcome \in Outcomes :
          \E p \in {attempt_request(requests[i].r, defaults.rd, draws)} :
             requests' = store(requests, i,
                               IF p.panic \/ build_panics(p.req) THEN "panicked"
                               ELSE IF retries(outcome) THEN next ELSE "moved",
                               requests[i].r)
    /\ UNCHANGED <<inputs, defaults, req, pc, attempts, slept, result, last_query>>

\* Request::send / send_by on Request i, up to the end of its first attempt
SharedSendBy == \E i \in DOMAIN requests : SharedAttempt(i, "live", "cooldown")

\* the sleep of send_by on Request i
SharedCooldownAt(i) ==
    /\ requests[i].state = "cooldown"
    /\ requests' = store(requests, i, "retry", requests[i].r)
    /\ UNCHANGED <<inputs, defaults, req, pc, attempts, slept, result, last_query>>

SharedCooldown == \E i \in DOMAIN requests : SharedCooldownAt(i)

\* the second attempt of send_by on Request i
SharedRetry == \E i \in DOMAIN requests : SharedAttempt(i, "retry", "moved")

NextShared ==
    \/ New
    \/ BorrowRequest
    \/ SharedSetHeader
    \/ SharedPrepare
    \/ SharedMakeQuery
    \/ SharedEmptyResponse
    \/ SharedSendBy
    \/ SharedCooldown
    \/ SharedRetry

SpecShared == InitShared /\ [][NextShared]_vars

----------------------------------------------------------------------------
(* Properties.                                                             *)

\* the fields of a Request that go on the wire or into the Response
SameRequest(a, b) ==
    /\ a.path = b.path
    /\ a.body = b.body
    /\ a.headers = b.headers
    /\ a.prepared_parameters = b.prepared_parameters

\* C1: one send_by makes at most two transport attempts; the second is made
\* exactly when the first ended in a transport error (any status code is
\* returned at once), and only after the 10 second cooldown; two failures
\* return the error, a success of either attempt returns its Response.
SendByRetriesOnce ==
    /\ Len(attempts) <= 2
    /\ Len(attempts) = 2 => ~attempts[1].outcome.ok /\ slept >= 10
    /\ (attempts # <<>> /\ attempts[1].outcome.ok) =>
          /\ Len(attempts) = 1
          /\ pc = "done"
          /\ result = Response(attempts[1].outcome.code, attempts[1].sent)
    /\ (Len(attempts) = 1 /\ ~attempts[1].outcome.ok) => pc \in {"cooldown", "retry"}
    /\ (pc = "done" /\ Len(attempts) = 2) =>
          IF attempts[2].outcome.ok
          THEN result = Response(attempts[2].outcome.code, attempts[2].sent)
          ELSE result.kind = "Error"
    /\ result.kind = "Error" =>
          /\ Len(attempts) = 2
          /\ ~attempts[1].outcome.ok
          /\ ~attempts[2].outcome.ok

\* C1 witness: a failed first attempt, then a 404 on the retry, returned
RetryReturned404 ==
    /\ Len(attempts) = 2
    /\ ~attempts[1].outcome.ok
    /\ attempts[2].outcome.code = 404
    /\ result.kind = "Response"
    /\ slept = 10

\* C2: the retry of send_by transmits the same prepared request as the first
\* attempt, whether or not the Request was prepared before the send.
RetrySendsSameRequest ==
    Len(attempts) = 2 => SameRequest(attempts[2].sent, attempts[1].sent)

\* C3: prepare on a Request whose prepared flag is set changes no field, so
\* whatever prepare(), print(), empty_response() and request() run on it, the
\* Request and what is sent and returned stay what the one preparation made.
PrepareIdempotent ==
    /\ [][(req.prepared /\ ~SetHeader) => req' = req]_vars
    /\ [](req.prepared =>
            /\ \A i \in 1..Len(attempts) : attempts[i].sent = req
            /\ result.kind = "Response" => result.request = req)

\* C3 witness: a prepared Request with parameters and headers went through
\* both attempts of send_by
PreparedRequestSentTwice ==
    /\ req.prepared
    /\ req.prepared_parameters # <<>>
    /\ req.headers # <<>>
    /\ Len(attempts) = 2
    /\ pc = "done"

HasMarker(s) == Contains(s, MARKER)

\* C4: a RequestDefaults that new returns has the marker in exactly one of
\* path and body under Path and Body, and in neither under Headers and
\* HeaderValue.
MarkerInvariant ==
    defaults.status = "Ok" =>
        IF defaults.rd.injection_place \in {"Path", "Body"}
        THEN HasMarker(defaults.rd.path) # HasMarker(defaults.rd.body)
        ELSE ~HasMarker(defaults.rd.path) /\ ~HasMarker(defaults.rd.body)

\* C5: the injection place of a RequestDefaults is HeaderValue or Headers
\* under headers_discovery (HeaderValue when a custom header value holds the
\* marker), and else Body exactly when "the method is POST, PUT, PATCH or
\* DELETE" differs from invert, Path otherwise.
InjectionPlaceResolved ==
    defaults.status = "Ok" =>
        defaults.rd.injection_place =
            IF inputs.headers_discovery
            THEN IF \E i \in 1..Len(inputs.custom_headers) :
                        HasMarker(inputs.custom_headers[i][2])
                 THEN "HeaderValue" ELSE "Headers"
            ELSE IF (inputs.method \in {"POST", "PUT", "PATCH", "DELETE"}) # inputs.invert
                 THEN "Body" ELSE "Path"

\* C5 witness: an inverted GET resolved to Body
InvertedGetInjectsBody ==
    /\ defaults.status = "Ok"
    /\ inputs.method = "GET"
    /\ inputs.invert
    /\ ~inputs.headers_discovery
    /\ defaults.rd.injection_place = "Body"

\* the indices of the tokens with and without '=' (the empty ones left out)
ExplicitIndices(tokens) == {i \in 1..Len(tokens) : "=" \in {tokens[i][j] : j \in 1..Len(tokens[i])}}
BareIndices(tokens) ==
    {i \in 1..Len(tokens) : tokens[i] # <<>> /\ i \notin ExplicitIndices(tokens)}

\* the k-th smallest element of a set of indices
Nth(S, k) == CHOOSE i \in S : Cardinality({j \in S : j < i}) = k - 1

\* a step in which prepare ran on the caller's unprepared Request
PrepareStep == pc = "live" /\ ~req.prepared /\ req'.prepared

\* C6: prepare leaves in prepared_parameters the pairs that were there,
\* then non_random_parameters (one per token with '=', in order), then one
\* (name, random value) pair per non-empty token without '=', in order.
PreparedParametersOrder ==
    [][PrepareStep =>
        LET seeded == req.prepared_parameters
            E == ExplicitIndices(req.parameters)
            B == BareIndices(req.parameters)
            pp == req'.prepared_parameters
            ne == Cardinality(E)
        IN  /\ Len(req'.non_random_parameters) = ne
            /\ Len(pp) = Len(seeded) + ne + Cardinality(B)
            /\ SubSeq(pp, 1, Len(seeded)) = seeded
            /\ SubSeq(pp, Len(seeded) + 1, Len(seeded) + ne) = req'.non_random_parameters
            /\ \A k \in 1..ne :
                  StartsWith(req.parameters[Nth(E, k)],
                             req'.non_random_parameters[k][1] \o <<"=">>)
            /\ \A k \in 1..Cardinality(B) :
                  /\ pp[Len(seeded) + ne + k][1] = req.parameters[Nth(B, k)]
                  /\ pp[Len(seeded) + ne + k][2] \in RandomLines]_vars

\* C6 witness: a seeded Request with a bare, an empty and an explicit token,
\* prepared
SeededMixedPrepared ==
    /\ req.prepared
    /\ Len(req.parameters) = 3
    /\ req.parameters[2] = <<>>
    /\ Len(req.prepared_parameters) = 3
    /\ req.prepared_parameters[1] = <<<<"s">>, <<"1">>>>
    /\ req.prepared_parameters[3][1] = <<"x">>

\* the index of the first '=' of a token that has one
FirstEq(x) == CHOOSE i \in 1..Len(x) : x[i] = "=" /\ \A j \in 1..(i - 1) : x[j] # "="

\* C7: for a token with '=', non_random_parameters holds (the text before
\* the first '=', all the text after the first '=').
SplitsOnFirstEq ==
    req.prepared =>
        LET E == ExplicitIndices(req.parameters)
        IN  /\ Len(req.non_random_parameters) = Cardinality(E)
            /\ \A k \in 1..Cardinality(E) :
                  LET x == req.parameters[Nth(E, k)]
                  IN  req.non_random_parameters[k] =
                          <<SubSeq(x, 1, FirstEq(x) - 1), SubSeq(x, FirstEq(x) + 1, Len(x))>>

\* a Content-Type header in a header list, names compared without case
HasContentType(headers) ==
    \E i \in 1..Len(headers) : to_lowercase(headers[i][1]) = LOWER_CONTENT_TYPE

\* C8: under Body, prepare adds its own Content-Type header only when none is
\* present among the custom headers or the live headers (names compared
\* without case), with application/json under is_json and
\* application/x-www-form-urlencoded otherwise.
ContentTypeOnlyWhenAbsent ==
    [][(PrepareStep /\ defaults.rd.injection_place = "Body") =>
        LET d == defaults.rd
            copied == Len(req.headers) + Len(d.custom_headers)
            absent == ~HasContentType(d.custom_headers) /\ ~HasContentType(req.headers)
        IN  IF absent
            THEN /\ Len(req'.headers) = copied + 1
                 /\ req'.headers[copied + 1] =
                        <<CONTENT_TYPE,
                          IF d.is_json THEN APPLICATION_JSON ELSE APPLICATION_URLENCODED>>
            ELSE Len(req'.headers) = copied]_vars

\* C9: under Headers with the header template and joiner, prepare does not
\* panic and appends one (key, value) header per rendered parameter, in
\* order, with the encode flag set or not.
HeadersPrepareAppendsParameters ==
    [][(/\ PrepareStep
        /\ defaults.rd.injection_place = "Headers"
        /\ defaults.rd.template = HEADERS_TEMPLATE
        /\ defaults.rd.joiner = HEADERS_JOINER) =>
        LET rendered == req'.prepared_parameters \o defaults.rd.parameters
            n == Len(req'.headers)
        IN  /\ result'.kind # "Panic"
            /\ n >= Len(rendered)
            /\ SubSeq(req'.headers, n - Len(rendered) + 1, n) = rendered]_vars

\* C10: a non-empty body without the marker that is injected as JSON loses
\* only a trailing '}' and gets "%s}" when "{" is left and ",%s}" otherwise.
JsonFixupStripsBrace ==
    (/\ defaults.status = "Ok"
     /\ defaults.rd.injection_place = "Body"
     /\ defaults.rd.is_json
     /\ inputs.body # <<>>
     /\ ~HasMarker(inputs.body)) =>
        LET b == inputs.body
            kept == SubSeq(b, 1, Len(b) - 1)
        IN  /\ b[Len(b)] = "}"
            /\ defaults.rd.body =
                  IF kept = <<"{">> THEN kept \o <<"%", "s", "}">>
                  ELSE kept \o <<",", "%", "s", "}">>

\* Body injection with the urlencoded format, of a body without the marker
UrlencodedBodyFixup ==
    /\ defaults.status = "Ok"
    /\ defaults.rd.injection_place = "Body"
    /\ ~defaults.rd.is_json
    /\ ~HasMarker(inputs.body)

\* C11: for a body without the marker, Body fixup with the urlencoded format
\* returns a body holding the marker exactly once, whatever the joiner, and
\* returns the path unchanged.
UrlencodedFixupOneMarker ==
    UrlencodedBodyFixup =>
        /\ Occurrences(defaults.rd.body, MARKER) = 1
        /\ defaults.rd.path = inputs.url.before_path

\* C12: Path fixup leaves the body unchanged and rewrites the path p: p when
\* it holds the marker, else p + joiner + "%s" when it holds '?', else
\* p + "?%s" when the joiner is "&", else p + "%s".
PathFixupRewritesPath ==
    (defaults.status = "Ok" /\ defaults.rd.injection_place = "Path") =>
        LET p == inputs.url.before_path
            j == defaults.rd.joiner
        IN  /\ defaults.rd.body = inputs.body
            /\ defaults.rd.path =
                  IF HasMarker(p) THEN p
                  ELSE IF \E i \in 1..Len(p) : p[i] = "?" THEN p \o j \o <<"%", "s">>
                  ELSE IF j = <<"&">> THEN p \o <<"?", "%", "s">>
                  ELSE p \o <<"%", "s">>
            /\ (p = <<"/", "a", "?", "b", "=", "1">> /\ j = <<"&">>) =>
                  defaults.rd.path = <<"/", "a", "?", "b", "=", "1", "&", "%", "s">>

QueryPathGetsJoinerMarker ==
    /\ defaults.status = "Ok"
    /\ defaults.rd.injection_place = "Path"
    /\ inputs.url.before_path = <<"/", "a", "?", "b", "=", "1">>
    /\ defaults.rd.joiner = <<";">>
    /\ defaults.rd.path = <<"/", "a", "?", "b", "=", "1", ";", "%", "s">>

\* the ASCII decimal integers without a leading zero, and the JSON words
AsciiDigits == {"0", "1", "2", "3", "4", "5", "6", "7", "8", "9"}

IsBareJsonValue(v) ==
    \/ v \in {<<"t", "r", "u", "e">>, <<"f", "a", "l", "s", "e">>, <<"n", "u", "l", "l">>}
    \/ /\ v # <<>>
       /\ v[1] \in AsciiDigits \ {"0"}
       /\ \A i \in 2..Len(v) : v[i] \in AsciiDigits

\* the entry of (key, value): the template with the key and the value, the
\* value in double quotes when quoted
EntryOf(template, kv, quoted) ==
    LET value == IF quoted THEN <<"\"">> \o kv[2] \o <<"\"">> ELSE kv[2]
    IN  Replace(Replace(template, KEY_VAR, kv[1]), VALUE_VAR, value)

\* C13: make_query renders each value unquoted exactly when is_json is not
\* set or the value is true, false, null or a decimal integer without a
\* leading zero, in double quotes otherwise, and joins the entries with the
\* joiner, prepared_parameters first and the defaults-level parameters after.
QueryQuotesNonBareJsonValues ==
    pc = "queried" =>
        LET d == defaults.rd
            chained == req.prepared_parameters \o d.parameters
            entries == [i \in 1..Len(chained) |->
                           EntryOf(d.template, chained[i],
                                   d.is_json /\ ~IsBareJsonValue(chained[i][2]))]
            joined == Join(entries, d.joiner)
        IN  last_query = IF d.encode THEN utf8_percent_encode(joined) ELSE joined

NewNeverUnreachable ==
    pc # "start" =>
        /\ defaults.status # "Panic"
        /\ defaults.status = "Ok" =>
              LET d == defaults.rd
              IN  /\ (inputs.data_type = "ProbablyJson" /\ ~inputs.headers_discovery) =>
                        \/ d.injection_place = "Body" /\ d.is_json
                                /\ d.template = <<"\"", "%", "k", "\"", ":", "%", "v">>
                        \/ d.injection_place = "Path" /\ ~d.is_json
                                /\ d.template = <<"%", "k", "=", "%", "v">>
                  /\ inputs.headers_discovery =>
                        /\ d.injection_place \in {"Headers", "HeaderValue"}
                        /\ ~d.is_json
                  /\ d.injection_place = "Body" =>
                        d.template \in {<<"\"", "%", "k", "\"", ":", "%", "v">>,
                                        <<"%", "k", "=", "%", "v">>}

ProbablyJsonUnderHeadersDiscovery ==
    /\ defaults.status = "Ok"
    /\ inputs.data_type = "ProbablyJson"
    /\ inputs.headers_discovery
    /\ defaults.rd.injection_place = "Headers"
    /\ defaults.rd.template = HEADERS_TEMPLATE

====
